---- MODULE Spec2Model ----
(***************************************************************************)
(* berga: a personal CLI that stores scripts and templates under           *)
(* $HOME/.berga and lists, shows, edits, runs or applies them.             *)
(*                                                                         *)
(* The model covers cmd/root.go (configuration paths), the script command  *)
(* (runScript, showScript, isExecutable, getInterpreter) and               *)
(* cmd/template.go (applyTemplate).                                        *)
(*                                                                         *)
(* Text is modelled as sequences of one-character strings, so that the     *)
(* string operations of the code (HasPrefix, HasSuffix, ToLower,           *)
(* TrimSpace, Fields, the line scanner) are computed, not assumed.         *)
(*                                                                         *)
(* Time is counted in whole seconds (the unit of --timeout and of          *)
(* scripts.timeout).  A step of the program takes no time: the clock       *)
(* advances only when no step of the program is enabled.                   *)
(***************************************************************************)
EXTENDS Integers, Sequences, FiniteSets, TLC

\* ------------------------------------------------------------------ bounds

\* Largest value given to --timeout and to scripts.timeout (seconds).
MaxTimeoutArg == 2
\* Longest run of a child process (seconds).
MaxDuration == 3
\* Largest number of arguments passed on to the script.
MaxArgs == 2
\* Calls of the command handler made one after the other in one process.
MaxCalls == 2

\* Default of the --timeout flag.
DefaultTimeout == 300
\* Capacity of the channel `done` of runScript.
DoneCap == 1

\* ------------------------------------------------------------------- text

Nil == "nil"

IsSpace(c) == c \in {" ", "\t", "\r", "\n"}

UpperToLower ==
  ("A" :> "a" @@ "B" :> "b" @@ "C" :> "c" @@ "D" :> "d" @@ "E" :> "e" @@ "F" :> "f"
   @@ "G" :> "g" @@ "H" :> "h" @@ "I" :> "i" @@ "J" :> "j" @@ "K" :> "k" @@ "L" :> "l"
   @@ "M" :> "m" @@ "N" :> "n" @@ "O" :> "o" @@ "P" :> "p" @@ "Q" :> "q" @@ "R" :> "r"
   @@ "S" :> "s" @@ "T" :> "t" @@ "U" :> "u" @@ "V" :> "v" @@ "W" :> "w" @@ "X" :> "x"
   @@ "Y" :> "y" @@ "Z" :> "z")

\* strings.ToLower
ToLower(s) ==
  [i \in 1..Len(s) |-> IF s[i] \in DOMAIN UpperToLower THEN UpperToLower[s[i]] ELSE s[i]]

\* strings.HasPrefix
HasPrefix(s, p) == Len(s) >= Len(p) /\ SubSeq(s, 1, Len(p)) = p

\* strings.HasSuffix
HasSuffix(s, p) == Len(s) >= Len(p) /\ SubSeq(s, Len(s) - Len(p) + 1, Len(s)) = p

RECURSIVE TrimLeft(_)
TrimLeft(s) == IF s # <<>> /\ IsSpace(Head(s)) THEN TrimLeft(Tail(s)) ELSE s

RECURSIVE TrimRight(_)
TrimRight(s) ==
  IF s # <<>> /\ IsSpace(s[Len(s)]) THEN TrimRight(SubSeq(s, 1, Len(s) - 1)) ELSE s

\* strings.TrimSpace
TrimSpace(s) == TrimRight(TrimLeft(s))

\* The first i characters of s that hold no white space.
RECURSIVE WordLen(_)
WordLen(s) == IF s = <<>> \/ IsSpace(Head(s)) THEN 0 ELSE 1 + WordLen(Tail(s))

\* strings.Fields: the maximal runs of characters that are not white space.
RECURSIVE Fields(_)
Fields(s) ==
  LET t == TrimLeft(s)
      n == WordLen(t)
  IN  IF t = <<>> THEN <<>>
      ELSE <<SubSeq(t, 1, n)>> \o Fields(SubSeq(t, n + 1, Len(t)))

\* Position of the first "\n" of s at or after i, 0 when there is none.
RECURSIVE NewlineFrom(_, _)
NewlineFrom(s, i) ==
  IF i > Len(s) THEN 0
  ELSE IF s[i] = "\n" THEN i ELSE NewlineFrom(s, i + 1)

IndexNewline(s) == NewlineFrom(s, 1)

\* bufio.ScanLines dropping one trailing carriage return.
DropCR(s) == IF s # <<>> /\ s[Len(s)] = "\r" THEN SubSeq(s, 1, Len(s) - 1) ELSE s

\* bufio.Scanner: Scan() then Text() on the content of a file.
\* [ok |-> FALSE] when the file is empty, else the first line without its end.
ScanFirstLine(content) ==
  IF content = <<>> THEN [ok |-> FALSE, text |-> <<>>]
  ELSE LET i == IndexNewline(content)
       IN  [ok   |-> TRUE,
            text |-> DropCR(IF i = 0 THEN content ELSE SubSeq(content, 1, i - 1))]


\* ------------------------------------------------------------ environment

VARIABLES
  goos,          \* runtime.GOOS: "linux" or "windows"
  home,          \* os.UserHomeDir(): [ok, path], ok false when it cannot be resolved
  fs,            \* the file system: directory path -> [state, files]
  command,       \* the subcommand of this invocation: "run", "show", "apply"
  scriptName,    \* args[0] of `script run` / `script show`
  scriptArgs,    \* args[1:] of `script run`
  timeoutFlag,   \* --timeout on the command line: [given, value]
  scriptTimeout, \* package variable bound to --timeout
  configTimeout, \* viper.GetInt("scripts.timeout"); 0 when the key is unset
  script,        \* what the script does once started: [spawn, dur, code]
  templateName,  \* args[0] of `template apply`
  outputFile,    \* args[1] of `template apply`
  tmplEnv,       \* what reading, parsing, creating and executing will do
  dest,          \* outputFile on disk: [exists, content]
  destAtCall,    \* dest as it was when the current call began
  cfgFile,       \* whether --config names a configuration file
  response,      \* the word the user types at the overwrite prompt
  readDirOk      \* whether os.ReadDir of an existing directory succeeds

VARIABLES
  clock,         \* seconds since the process started
  call,          \* number of the current call of the handler
  pc,            \* position of the main goroutine
  timeout,       \* call -> effective timeout of runScript (seconds)
  cmd,           \* call -> the exec.Cmd built by runScript
  deadline,      \* call -> time at which time.After(timeout) delivers
  done,          \* call -> content of the channel `done`
  lpc,           \* call -> position of the launcher goroutine
  runErr,        \* call -> value cmd.Run() returned to the launcher
  process,       \* call -> cmd.Process
  child,         \* call -> the child process: [state, exitAt, code]
  spawned,       \* call -> number of child processes started
  sentAt,        \* call -> time of the send on `done`, -1 before it
  outcome,       \* call -> what the handler returned
  tpath,         \* templatePath of applyTemplate
  prompts,       \* questions the current call has put to the user, in order
  catalog,       \* names printed by the current listing
  exitCode,      \* exit code of the process, NoExit while it runs
  reported       \* terminal errors written to stderr, in order

envVars == <<goos, home, fs, command, scriptName, scriptArgs, timeoutFlag,
             scriptTimeout, configTimeout, script, templateName, outputFile,
             tmplEnv, cfgFile, response, readDirOk>>
runVars == <<timeout, cmd, deadline, done, lpc, runErr, process, child,
             spawned, sentAt>>
cliVars == <<catalog, exitCode, reported>>
vars == <<envVars, dest, destAtCall, clock, call, pc, runVars, outcome, tpath, prompts,
          cliVars>>

Calls == 1..MaxCalls

\* ------------------------------------------------------------------ paths

Sep == IF goos = "windows" THEN <<"\\">> ELSE <<"/">>

RECURSIVE JoinNonEmpty(_)
JoinNonEmpty(elems) ==
  IF elems = <<>> THEN <<>>
  ELSE IF Len(elems) = 1 THEN Head(elems)
  ELSE Head(elems) \o Sep \o JoinNonEmpty(Tail(elems))

\* filepath.Join: empty elements are ignored, the rest joined by the separator.
\* (Clean changes nothing for the names of this model: no separator, no dot
\* element.)
Join(elems) == JoinNonEmpty(SelectSeq(elems, LAMBDA e : e # <<>>))

\* Position of the last separator of path, 0 when there is none.
RECURSIVE LastSep(_)
LastSep(path) ==
  IF path = <<>> THEN 0
  ELSE IF <<path[Len(path)]>> = Sep THEN Len(path)
  ELSE LastSep(SubSeq(path, 1, Len(path) - 1))

\* filepath.Dir and filepath.Base
Dir(path) == LET i == LastSep(path) IN IF i = 0 THEN <<".">> ELSE SubSeq(path, 1, i - 1)
Base(path) == SubSeq(path, LastSep(path) + 1, Len(path))

\* Position of the last "." of s, 0 when there is none.
RECURSIVE LastDot(_)
LastDot(s) ==
  IF s = <<>> THEN 0
  ELSE IF s[Len(s)] = "." THEN Len(s)
  ELSE LastDot(SubSeq(s, 1, Len(s) - 1))

\* filepath.Ext: the suffix of the last element from its last dot.
Ext(path) ==
  LET b == Base(path)
      i == LastDot(b)
  IN  IF i = 0 THEN <<>> ELSE SubSeq(b, i, Len(b))

DotBerga   == <<".", "b", "e", "r", "g", "a">>
Scripts    == <<"s", "c", "r", "i", "p", "t", "s">>
Templates  == <<"t", "e", "m", "p", "l", "a", "t", "e", "s">>

\* Mutant: the home directory and ".berga" are concatenated, not joined.
GetConfigDir_NoSeparator == IF ~home.ok THEN <<>> ELSE home.path \o DotBerga

\* GetConfigDir: "" when the home directory cannot be resolved.
GetConfigDir == IF ~home.ok THEN <<>> ELSE Join(<<home.path, DotBerga>>)

GetScriptsDir == Join(<<GetConfigDir, Scripts>>)

GetTemplatesDir == Join(<<GetConfigDir, Templates>>)

\* ------------------------------------------------------------ file system

\* fs maps the path of a directory entry to
\*   [state |-> "dir", files |-> name -> file]  a directory and its files, or
\*   [state |-> "notdir", ...]                  a regular file of that name;
\* a path outside DOMAIN fs does not exist.

\* Error of os.Stat(path): "ok", "ENOENT" or "ENOTDIR".  A path that leads
\* through a regular file is ENOTDIR on POSIX and ERROR_PATH_NOT_FOUND, which
\* os.IsNotExist accepts, on Windows.
Stat(path) ==
  LET d == Dir(path) IN
  IF d \notin DOMAIN fs THEN "ENOENT"
  ELSE IF fs[d].state # "dir" THEN (IF goos = "windows" THEN "ENOENT" ELSE "ENOTDIR")
  ELSE IF Base(path) \in DOMAIN fs[d].files THEN "ok" ELSE "ENOENT"

\* os.IsNotExist
IsNotExist(err) == err = "ENOENT"

FileAt(path) == fs[Dir(path)].files[Base(path)]

\* Whether os.Open / os.ReadFile of path succeeds.
CanRead(path) == Stat(path) = "ok" /\ FileAt(path).readable

ExecBits == {"ux", "gx", "ox"}

Str_exe == <<".", "e", "x", "e">>
Str_bat == <<".", "b", "a", "t">>
Str_cmd == <<".", "c", "m", "d">>
Str_ps1 == <<".", "p", "s", "1">>

\* Mutant: only the owner's execute bit counts.
isExecutable_OwnerOnly(path) ==
  IF Stat(path) # "ok" THEN FALSE
  ELSE IF goos = "windows"
       THEN ToLower(Ext(path)) \in {Str_exe, Str_bat, Str_cmd, Str_ps1}
       ELSE "ux" \in FileAt(path).mode

\* isExecutable: on Windows by extension, elsewhere by mode & 0111.
isExecutable(path) ==
  IF Stat(path) # "ok" THEN FALSE
  ELSE IF goos = "windows"
       THEN ToLower(Ext(path)) \in {Str_exe, Str_bat, Str_cmd, Str_ps1}
       ELSE FileAt(path).mode \cap ExecBits # {}

\* getInterpreter: the first field after "#!" on the first line, "" otherwise.
getInterpreter(scriptPath) ==
  IF ~CanRead(scriptPath) THEN <<>>
  ELSE LET line == ScanFirstLine(FileAt(scriptPath).content) IN
       IF line.ok /\ HasPrefix(line.text, <<"#", "!">>)
       THEN LET shebang == TrimSpace(SubSeq(line.text, 3, Len(line.text)))
                parts   == Fields(shebang)
            IN  IF Len(parts) > 0 THEN parts[1] ELSE <<>>
       ELSE <<>>


\* ------------------------------------------------------------- runScript

Str_sh         == <<"s", "h">>
Str_powershell == <<"p", "o", "w", "e", "r", "s", "h", "e", "l", "l">>
Str_cmdexe     == <<"c", "m", "d">>
Str_File       == <<"-", "F", "i", "l", "e">>
Str_C          == <<"/", "C">>

\* exec.Command(name, arg...)
Command(name, args) == [name |-> name, args |-> args]

\* Mutant: the suffix of the name is compared as written.
Plan_CaseSensitive(scriptPath, name, args) ==
  IF goos = "windows"
  THEN IF HasSuffix(name, Str_ps1)
       THEN Command(Str_powershell, <<Str_File, scriptPath>> \o args)
       ELSE IF HasSuffix(name, Str_bat) \/ HasSuffix(name, Str_cmd)
       THEN Command(Str_cmdexe, <<Str_C, scriptPath>> \o args)
       ELSE Command(scriptPath, args)
  ELSE IF isExecutable(scriptPath)
       THEN Command(scriptPath, args)
       ELSE LET interpreter == getInterpreter(scriptPath) IN
            IF interpreter # <<>>
            THEN Command(interpreter, <<scriptPath>> \o args)
            ELSE Command(Str_sh, <<scriptPath>> \o args)

\* How runScript builds the command.
Plan(scriptPath, name, args) ==
  IF goos = "windows"
  THEN IF HasSuffix(ToLower(name), Str_ps1)
       THEN Command(Str_powershell, <<Str_File, scriptPath>> \o args)
       ELSE IF HasSuffix(ToLower(name), Str_bat) \/ HasSuffix(ToLower(name), Str_cmd)
       THEN Command(Str_cmdexe, <<Str_C, scriptPath>> \o args)
       ELSE Command(scriptPath, args)
  ELSE IF isExecutable(scriptPath)
       THEN Command(scriptPath, args)
       ELSE LET interpreter == getInterpreter(scriptPath) IN
            IF interpreter # <<>>
            THEN Command(interpreter, <<scriptPath>> \o args)
            ELSE Command(Str_sh, <<scriptPath>> \o args)

\* The timeout runScript uses, in seconds: the flag variable, replaced by
\* scripts.timeout when that is positive.
EffectiveTimeout(flagVar, configVal) ==
  IF configVal > 0 THEN configVal ELSE flagVar

\* Mutant: a timer that ignores its duration.
TimerDeadline_Now(now, d) == now

\* time.After(d) delivers at once when d <= 0.
TimerDeadline(now, d) == IF d > 0 THEN now + d ELSE now

ScriptPath == Join(<<GetScriptsDir, scriptName>>)

NoOutcome == [kind |-> "none", err |-> Nil, after |-> 0]
Returned(kind, err, after) == [kind |-> kind, err |-> err, after |-> after]

NoChild == [state |-> "none", exitAt |-> 0, code |-> 0]


\* The process is alive: a nil dereference in the main goroutine ends it,
\* and so does os.Exit.
Alive == pc \notin {"panicked", "exited"}

\* runScript up to the select: the existence check, the timeout, the command,
\* the channel, the launcher goroutine and the timer.
runScriptBegin ==
  /\ UNCHANGED cliVars
  /\ pc = "start" /\ command = "run"
  /\ IF IsNotExist(Stat(ScriptPath))
     THEN /\ outcome' = [outcome EXCEPT ![call] = Returned("NotFound", Nil, 0)]
          /\ pc' = "returned"
          /\ UNCHANGED runVars
     ELSE /\ timeout' = [timeout EXCEPT ![call] =
                           EffectiveTimeout(scriptTimeout, configTimeout)]
          /\ cmd' = [cmd EXCEPT ![call] = Plan(ScriptPath, scriptName, scriptArgs)]
          /\ done' = [done EXCEPT ![call] = <<>>]
          /\ lpc' = [lpc EXCEPT ![call] = "start"]
          /\ deadline' = [deadline EXCEPT ![call] = TimerDeadline(clock, timeout'[call])]
          /\ pc' = "select"
          /\ UNCHANGED <<runErr, process, child, spawned, sentAt, outcome>>
  /\ UNCHANGED <<envVars, dest, destAtCall, clock, call, tpath, prompts>>

\* Whether the operating system can start the command: the program of an
\* interpreter is there when the environment says so, the script itself only
\* when the file is.
Spawnable(c) ==
  /\ script.spawn
  /\ c.name = ScriptPath => Stat(ScriptPath) = "ok"

\* What the child does: the script's own run, or an interpreter that finds
\* no file to read and fails at once.
Behaviour ==
  IF Stat(ScriptPath) = "ok" THEN script ELSE [spawn |-> TRUE, dur |-> 0, code |-> 1]

\* Launcher goroutine, cmd.Run() -> cmd.Start(): os.StartProcess.
StartProcess(i) ==
  /\ UNCHANGED cliVars
  /\ Alive /\ lpc[i] = "start"
  /\ IF Spawnable(cmd[i])
     THEN /\ child' = [child EXCEPT ![i] = [state  |-> "running",
                                           exitAt |-> clock + Behaviour.dur,
                                           code   |-> Behaviour.code]]
          /\ spawned' = [spawned EXCEPT ![i] = @ + 1]
          /\ lpc' = [lpc EXCEPT ![i] = "assign"]
          /\ UNCHANGED runErr
     ELSE /\ runErr' = [runErr EXCEPT ![i] = "spawn failed"]
          /\ lpc' = [lpc EXCEPT ![i] = "send"]
          /\ UNCHANGED <<child, spawned>>
  /\ UNCHANGED <<envVars, dest, destAtCall, clock, call, pc, timeout, cmd, deadline, done,
                 process, sentAt, outcome, tpath, prompts>>

\* Launcher goroutine, cmd.Start(): c.Process is assigned the new process.
AssignProcess(i) ==
  /\ UNCHANGED cliVars
  /\ Alive /\ lpc[i] = "assign"
  /\ process' = [process EXCEPT ![i] = "process"]
  /\ lpc' = [lpc EXCEPT ![i] = "wait"]
  /\ UNCHANGED <<envVars, dest, destAtCall, clock, call, pc, timeout, cmd, deadline, done,
                 runErr, child, spawned, sentAt, outcome, tpath, prompts>>

\* The operating system ends the child: its run is over, or a kill signal
\* has been sent to it.
ChildExit(i) ==
  /\ UNCHANGED cliVars
  /\ \/ child[i].state = "running" /\ clock >= child[i].exitAt
        /\ child' = [child EXCEPT ![i].state = "exited"]
     \/ child[i].state = "signalled"
        /\ child' = [child EXCEPT ![i].state = "exited", ![i].code = -1]
  /\ UNCHANGED <<envVars, dest, destAtCall, clock, call, pc, timeout, cmd, deadline, done,
                 lpc, runErr, process, spawned, sentAt, outcome, tpath, prompts>>

\* The error of cmd.Wait() for an exit code (-1: killed by a signal).
ExitError(code) ==
  IF code = 0 THEN Nil
  ELSE IF code = -1 THEN "signal: killed" ELSE "exit status 1"

\* Launcher goroutine, cmd.Run() -> cmd.Wait() returns.
WaitReturns(i) ==
  /\ UNCHANGED cliVars
  /\ Alive /\ lpc[i] = "wait" /\ child[i].state = "exited"
  /\ runErr' = [runErr EXCEPT ![i] = ExitError(child[i].code)]
  /\ lpc' = [lpc EXCEPT ![i] = "send"]
  /\ UNCHANGED <<envVars, dest, destAtCall, clock, call, pc, timeout, cmd, deadline, done,
                 process, child, spawned, sentAt, outcome, tpath, prompts>>

\* Mutant: `done` is made without a buffer, so that the send goes through
\* only while runScript is waiting in the select of the same call.
SendDone_Unbuffered(i) ==
  /\ UNCHANGED cliVars
  /\ Alive /\ lpc[i] = "send" /\ Len(done[i]) < DoneCap
  /\ pc = "select" /\ call = i
  /\ done' = [done EXCEPT ![i] = Append(@, runErr[i])]
  /\ sentAt' = [sentAt EXCEPT ![i] = clock]
  /\ lpc' = [lpc EXCEPT ![i] = "end"]
  /\ UNCHANGED <<envVars, dest, destAtCall, clock, call, pc, timeout, cmd, deadline,
                 runErr, process, child, spawned, outcome, tpath, prompts>>

\* Launcher goroutine: done <- cmd.Run(), then the goroutine ends.
SendDone(i) ==
  /\ UNCHANGED cliVars
  /\ Alive /\ lpc[i] = "send" /\ Len(done[i]) < DoneCap
  /\ done' = [done EXCEPT ![i] = Append(@, runErr[i])]
  /\ sentAt' = [sentAt EXCEPT ![i] = clock]
  /\ lpc' = [lpc EXCEPT ![i] = "end"]
  /\ UNCHANGED <<envVars, dest, destAtCall, clock, call, pc, timeout, cmd, deadline,
                 runErr, process, child, spawned, outcome, tpath, prompts>>

\* Mutant: the received error is dropped and the run reported as a success.
DoneBranch_DropsError ==
  /\ UNCHANGED cliVars
  /\ pc = "select" /\ done[call] # <<>>
  /\ outcome' = [outcome EXCEPT ![call] = Returned("Success", Nil, 0)]
  /\ done' = [done EXCEPT ![call] = Tail(@)]
  /\ pc' = "returned"
  /\ UNCHANGED <<envVars, dest, destAtCall, clock, call, timeout, cmd, deadline, lpc,
                 runErr, process, child, spawned, sentAt, tpath, prompts>>

\* select, case err := <-done.
DoneBranch ==
  /\ UNCHANGED cliVars
  /\ pc = "select" /\ done[call] # <<>>
  /\ LET err == Head(done[call]) IN
       outcome' = [outcome EXCEPT ![call] =
                     IF err # Nil THEN Returned("Failure", err, 0)
                                  ELSE Returned("Success", Nil, 0)]
  /\ done' = [done EXCEPT ![call] = Tail(@)]
  /\ pc' = "returned"
  /\ UNCHANGED <<envVars, dest, destAtCall, clock, call, timeout, cmd, deadline, lpc, runErr,
                 process, child, spawned, sentAt, tpath, prompts>>

\* Process.Kill(): the signal is sent to a process that still runs; the error
\* for one that is over is dropped by the caller.
Kill(c) == IF c.state = "running" THEN [c EXCEPT !.state = "signalled"] ELSE c

\* Mutant: the timeout is recorded but the select is entered again, so that
\* the completion of the killed child is received as well.
TimeoutBranch_KeepsWaiting ==
  /\ UNCHANGED cliVars
  /\ pc = "select" /\ clock >= deadline[call]
  /\ outcome[call] = NoOutcome
  /\ IF process[call] = Nil
     THEN /\ pc' = "panicked"
          /\ UNCHANGED <<child, outcome>>
     ELSE /\ child' = [child EXCEPT ![call] = Kill(@)]
          /\ outcome' = [outcome EXCEPT ![call] =
                           Returned("TimedOut", Nil, timeout[call])]
          /\ pc' = "select"
  /\ UNCHANGED <<envVars, dest, destAtCall, clock, call, timeout, cmd, deadline, done, lpc,
                 runErr, process, spawned, sentAt, tpath, prompts>>

\* select, case <-time.After(timeout): cmd.Process.Kill() and the return.
\* cmd.Process is nil until the launcher has assigned it.
TimeoutBranch ==
  /\ UNCHANGED cliVars
  /\ pc = "select" /\ clock >= deadline[call]
  /\ IF process[call] = Nil
     THEN /\ pc' = "panicked"
          /\ UNCHANGED <<child, outcome>>
     ELSE /\ child' = [child EXCEPT ![call] = Kill(@)]
          /\ outcome' = [outcome EXCEPT ![call] =
                           Returned("TimedOut", Nil, timeout[call])]
          /\ pc' = "returned"
  /\ UNCHANGED <<envVars, dest, destAtCall, clock, call, timeout, cmd, deadline, done, lpc,
                 runErr, process, spawned, sentAt, tpath, prompts>>


\* ------------------------------------------------------------ showScript

showScript ==
  /\ UNCHANGED cliVars
  /\ pc = "start" /\ command = "show"
  /\ outcome' = [outcome EXCEPT ![call] =
       IF IsNotExist(Stat(ScriptPath)) THEN Returned("NotFound", Nil, 0)
       ELSE IF ~CanRead(ScriptPath) THEN Returned("ReadError", Nil, 0)
       ELSE Returned("Success", Nil, 0)]
  /\ pc' = "returned"
  /\ UNCHANGED <<envVars, dest, destAtCall, clock, call, runVars, tpath, prompts>>

\* ------------------------------------------------------------ initConfig

NoExit == -1

\* initConfig, run by cobra before the handler: without --config the home
\* directory is looked up and cobra.CheckErr ends the process with code 1
\* when that fails; with --config the home directory is not looked at.
initConfig ==
  /\ pc = "init"
  /\ IF ~cfgFile /\ ~home.ok
     THEN /\ pc' = "exited"
          /\ exitCode' = 1
          /\ reported' = Append(reported, "ConfigUnavailable")
     ELSE /\ pc' = "start"
          /\ UNCHANGED <<exitCode, reported>>
  /\ UNCHANGED <<envVars, dest, destAtCall, clock, call, runVars, outcome, tpath,
                 prompts, catalog>>

\* ----------------------------------------------- listScripts, listTemplates

\* os.Stat of a directory entry of fs: as for a file, a parent that is a
\* regular file gives ENOTDIR on POSIX.
StatEntry(path) ==
  IF Dir(path) \in DOMAIN fs /\ fs[Dir(path)].state # "dir"
  THEN (IF goos = "windows" THEN "ENOENT" ELSE "ENOTDIR")
  ELSE IF path \in DOMAIN fs THEN "ok" ELSE "ENOENT"

\* Mutant: every path can be read as a directory.
CanReadDir_Always(path) == TRUE

\* os.ReadDir(path) succeeds on a directory that is there and can be read.
CanReadDir(path) ==
  /\ StatEntry(path) = "ok"
  /\ fs[path].state = "dir"
  /\ readDirOk

\* strings.TrimSuffix
TrimSuffix(s, suffix) ==
  IF HasSuffix(s, suffix) THEN SubSeq(s, 1, Len(s) - Len(suffix)) ELSE s

\* The outcome of a listing of dir and the names of the files found.
Listing(dir) ==
  IF IsNotExist(StatEntry(dir))
  THEN [outcome |-> Returned("DirMissing", Nil, 0), catalog |-> {}]
  ELSE IF ~CanReadDir(dir)
  THEN [outcome |-> Returned("ReadDirError", Nil, 0), catalog |-> {}]
  ELSE LET files == IF dir \in DOMAIN fs THEN fs[dir].files ELSE <<>> IN
       IF DOMAIN files = {}
       THEN [outcome |-> Returned("NoneFound", Nil, 0), catalog |-> {}]
       ELSE [outcome |-> Returned("Listed", Nil, 0),
             catalog |-> DOMAIN files]

ScriptDisplay(name) == name

listScripts ==
  /\ pc = "start" /\ command = "list"
  /\ LET l == Listing(GetScriptsDir) IN
       /\ outcome' = [outcome EXCEPT ![call] = l.outcome]
       /\ catalog' = {ScriptDisplay(name) : name \in l.catalog}
  /\ pc' = "returned"
  /\ UNCHANGED <<envVars, dest, destAtCall, clock, call, runVars, tpath, prompts,
                 exitCode, reported>>

Str_dottmpl == <<".", "t", "m", "p", "l">>

\* The name listTemplates prints: without a ".tmpl" suffix.
TemplateDisplay(name) == TrimSuffix(name, Str_dottmpl)

listTemplates ==
  /\ pc = "start" /\ command = "tlist"
  /\ LET l == Listing(GetTemplatesDir) IN
       /\ outcome' = [outcome EXCEPT ![call] = l.outcome]
       /\ catalog' = {TemplateDisplay(name) : name \in l.catalog}
  /\ pc' = "returned"
  /\ UNCHANGED <<envVars, dest, destAtCall, clock, call, runVars, tpath, prompts,
                 exitCode, reported>>

\* --------------------------------------------------------- applyTemplate

Str_tmpl == <<".", "t", "m", "p", "l">>
Str_y    == <<"y">>
Str_yes  == <<"y", "e", "s">>

\* Answers the user may type at a prompt (fmt.Scanln reads one word).
Responses == {<<>>, <<"y">>, <<"Y">>, <<"y", "e", "s">>, <<"Y", "e", "s">>, <<"n">>, <<"n", "o">>}

OldContent      == <<"o", "l", "d">>
RenderedContent == <<"n", "e", "w">>

NoFile == [exists |-> FALSE, content |-> <<>>]
File(content) == [exists |-> TRUE, content |-> content]

\* applyTemplate: the template is looked up by its name, then with ".tmpl".
applyResolve ==
  /\ UNCHANGED cliVars
  /\ pc = "start" /\ command = "apply"
  /\ LET exact  == Join(<<GetTemplatesDir, templateName>>)
         suffix == Join(<<GetTemplatesDir, templateName \o Str_tmpl>>)
     IN  IF ~IsNotExist(Stat(exact))
         THEN /\ tpath' = exact /\ pc' = "confirm" /\ UNCHANGED outcome
         ELSE IF ~IsNotExist(Stat(suffix))
         THEN /\ tpath' = suffix /\ pc' = "confirm" /\ UNCHANGED outcome
         ELSE /\ tpath' = suffix /\ pc' = "returned"
              /\ outcome' = [outcome EXCEPT ![call] = Returned("NotFound", Nil, 0)]
  /\ UNCHANGED <<envVars, dest, destAtCall, clock, call, runVars, prompts>>

\* Mutant: the output file is truncated before the user is asked.
applyConfirm_TruncatesFirst ==
  /\ UNCHANGED cliVars
  /\ pc = "confirm"
  /\ IF dest.exists
     THEN /\ prompts' = Append(prompts, "overwrite")
          /\ dest' = File(<<>>)
          /\ IF ToLower(response) # Str_y /\ ToLower(response) # Str_yes
             THEN /\ pc' = "returned"
                  /\ outcome' = [outcome EXCEPT ![call] = Returned("Cancelled", Nil, 0)]
             ELSE /\ pc' = "read" /\ UNCHANGED outcome
     ELSE /\ pc' = "read" /\ UNCHANGED <<prompts, outcome, dest>>
  /\ UNCHANGED <<envVars, destAtCall, clock, call, runVars, tpath>>

\* applyTemplate: an existing output file is overwritten only on "y" or "yes".
applyConfirm ==
  /\ UNCHANGED cliVars
  /\ pc = "confirm"
  /\ IF dest.exists
     THEN /\ prompts' = Append(prompts, "overwrite")
          /\ IF ToLower(response) # Str_y /\ ToLower(response) # Str_yes
             THEN /\ pc' = "returned"
                  /\ outcome' = [outcome EXCEPT ![call] = Returned("Cancelled", Nil, 0)]
             ELSE /\ pc' = "read" /\ UNCHANGED outcome
     ELSE /\ pc' = "read" /\ UNCHANGED <<prompts, outcome>>
  /\ UNCHANGED <<envVars, dest, destAtCall, clock, call, runVars, tpath>>

\* Mutant: the output file is created before the template is read.
applyRead_CreatesFirst ==
  /\ UNCHANGED cliVars
  /\ pc = "read"
  /\ dest' = File(<<>>)
  /\ IF CanRead(tpath)
     THEN /\ pc' = "parse" /\ UNCHANGED outcome
     ELSE /\ pc' = "returned"
          /\ outcome' = [outcome EXCEPT ![call] = Returned("ReadError", Nil, 0)]
  /\ UNCHANGED <<envVars, destAtCall, clock, call, runVars, tpath, prompts>>

\* applyTemplate: os.ReadFile(templatePath).
applyRead ==
  /\ UNCHANGED cliVars
  /\ pc = "read"
  /\ IF CanRead(tpath)
     THEN /\ pc' = "parse" /\ UNCHANGED outcome
     ELSE /\ pc' = "returned"
          /\ outcome' = [outcome EXCEPT ![call] = Returned("ReadError", Nil, 0)]
  /\ UNCHANGED <<envVars, dest, destAtCall, clock, call, runVars, tpath, prompts>>

\* applyTemplate: template.New(templateName).Parse, then collectTemplateVars.
applyParse ==
  /\ UNCHANGED cliVars
  /\ pc = "parse"
  /\ IF tmplEnv.parseOk
     THEN /\ pc' = "create" /\ prompts' = Append(prompts, "vars") /\ UNCHANGED outcome
     ELSE /\ pc' = "returned" /\ UNCHANGED prompts
          /\ outcome' = [outcome EXCEPT ![call] = Returned("ParseError", Nil, 0)]
  /\ UNCHANGED <<envVars, dest, destAtCall, clock, call, runVars, tpath>>

\* applyTemplate: os.Create(outputFile) creates the file or truncates it.
applyCreate ==
  /\ UNCHANGED cliVars
  /\ pc = "create"
  /\ IF tmplEnv.createOk
     THEN /\ dest' = File(<<>>) /\ pc' = "execute" /\ UNCHANGED outcome
     ELSE /\ pc' = "returned" /\ UNCHANGED dest
          /\ outcome' = [outcome EXCEPT ![call] = Returned("CreateError", Nil, 0)]
  /\ UNCHANGED <<envVars, destAtCall, clock, call, runVars, tpath, prompts>>

\* applyTemplate: tmpl.Execute(output, vars).
applyExecute ==
  /\ UNCHANGED cliVars
  /\ pc = "execute"
  /\ IF tmplEnv.executeOk
     THEN /\ dest' = File(RenderedContent)
          /\ outcome' = [outcome EXCEPT ![call] = Returned("Success", Nil, 0)]
     ELSE /\ UNCHANGED dest
          /\ outcome' = [outcome EXCEPT ![call] = Returned("ExecuteError", Nil, 0)]
  /\ pc' = "returned"
  /\ UNCHANGED <<envVars, destAtCall, clock, call, runVars, tpath, prompts>>

\* ------------------------------------------------------------- scheduling

\* The handler is called again (a fresh call of the same command).
NextCall ==
  /\ UNCHANGED cliVars
  /\ pc = "returned" /\ call < MaxCalls
  /\ call' = call + 1
  /\ pc' = "start"
  /\ destAtCall' = dest
  /\ prompts' = <<>>
  /\ UNCHANGED <<envVars, dest, clock, runVars, outcome, tpath>>

\* The outcomes a handler returns as an error (fmt.Errorf), the others are
\* returned as nil.
ErrorKinds ==
  {"NotFound", "Failure", "TimedOut", "ReadError", "ReadDirError", "ParseError",
   "CreateError", "ExecuteError"}

\* Mutant: main drops the error of Execute() and exits with 0.
mainExit_IgnoresError ==
  /\ pc \in {"returned", "panicked"} /\ exitCode = NoExit
  /\ IF pc = "panicked"
     THEN /\ exitCode' = 2
          /\ reported' = Append(reported, "panic")
          /\ pc' = pc
     ELSE /\ exitCode' = 0
          /\ reported' = IF outcome[call].kind \in ErrorKinds
                         THEN Append(reported, outcome[call].kind)
                         ELSE reported
          /\ pc' = "exited"
  /\ UNCHANGED <<envVars, dest, destAtCall, clock, call, runVars, outcome, tpath,
                 prompts, catalog>>

\* main: Execute() returns what the handler returned, cobra having written
\* an error to stderr; main exits with 1 on an error and 0 otherwise.  A
\* panic is written by the runtime, which exits with 2.
mainExit ==
  /\ pc \in {"returned", "panicked"} /\ exitCode = NoExit
  /\ IF pc = "panicked"
     THEN /\ exitCode' = 2
          /\ reported' = Append(reported, "panic")
          /\ pc' = pc
     ELSE /\ exitCode' = IF outcome[call].kind \in ErrorKinds THEN 1 ELSE 0
          /\ reported' = IF outcome[call].kind \in ErrorKinds
                         THEN Append(reported, outcome[call].kind)
                         ELSE reported
          /\ pc' = "exited"
  /\ UNCHANGED <<envVars, dest, destAtCall, clock, call, runVars, outcome, tpath,
                 prompts, catalog>>

\* A step of the program or of a child process.
Step ==
  \/ initConfig
  \/ listScripts
  \/ listTemplates
  \/ mainExit
  \/ runScriptBegin
  \/ \E i \in Calls : StartProcess(i)
  \/ \E i \in Calls : AssignProcess(i)
  \/ \E i \in Calls : ChildExit(i)
  \/ \E i \in Calls : WaitReturns(i)
  \/ \E i \in Calls : SendDone(i)
  \/ DoneBranch
  \/ TimeoutBranch
  \/ showScript
  \/ applyResolve
  \/ applyConfirm
  \/ applyRead
  \/ applyParse
  \/ applyCreate
  \/ applyExecute
  \/ NextCall

\* The times at which something is due: the timer of a pending select, the
\* end of a running child.
Due ==
  {deadline[i] : i \in {j \in Calls : j = call /\ pc = "select"}}
    \cup {child[i].exitAt : i \in {j \in Calls : child[j].state = "running"}}

\* Some step is enabled (the guards of the disjuncts of Step).
Busy ==
  \/ pc \in {"init", "start", "confirm", "read", "parse", "create", "execute"}
  \/ pc = "returned" /\ call < MaxCalls
  \/ pc \in {"returned", "panicked"} /\ exitCode = NoExit
  \/ pc = "select" /\ (done[call] # <<>> \/ clock >= deadline[call])
  \/ \E i \in Calls :
       \/ Alive /\ lpc[i] \in {"start", "assign"}
       \/ Alive /\ lpc[i] = "wait" /\ child[i].state = "exited"
       \/ Alive /\ lpc[i] = "send" /\ Len(done[i]) < DoneCap
       \/ child[i].state = "running" /\ clock >= child[i].exitAt
       \/ child[i].state = "signalled"

\* Time passes, to the next moment at which something is due, and only when
\* no step is enabled.
Tick ==
  /\ UNCHANGED cliVars
  /\ Alive
  /\ ~Busy
  /\ \E t \in Due :
       /\ t > clock
       /\ \A u \in Due : u > clock => t <= u
       /\ clock' = t
  /\ UNCHANGED <<envVars, dest, destAtCall, call, pc, runVars, outcome, tpath, prompts>>


\* ----------------------------------------------------------- invocations

\* The home directory and the two directories under it, as the file system
\* names them.
HomeOf(g)         == IF g = "windows" THEN <<"C", ":", "\\", "u">> ELSE <<"/", "h">>
ScriptsDirOf(g)   == IF g = "windows" THEN <<"C", ":", "\\", "u", "\\", ".", "b", "e", "r", "g", "a", "\\", "s", "c", "r", "i", "p", "t", "s">>
                                      ELSE <<"/", "h", "/", ".", "b", "e", "r", "g", "a", "/", "s", "c", "r", "i", "p", "t", "s">>
TemplatesDirOf(g) == IF g = "windows" THEN <<"C", ":", "\\", "u", "\\", ".", "b", "e", "r", "g", "a", "\\", "t", "e", "m", "p", "l", "a", "t", "e", "s">>
                                      ELSE <<"/", "h", "/", ".", "b", "e", "r", "g", "a", "/", "t", "e", "m", "p", "l", "a", "t", "e", "s">>

\* Script names.
Name_sh == <<"d", ".", "s", "h">>
Names == {Name_sh, <<"a", ".", "p", "s", "1">>, <<"A", ".", "P", "S", "1">>, <<"b", ".", "b", "a", "t">>, <<"c", ".", "C", "m", "d">>, <<"p", "s", "1">>, <<"t", "o", "o", "l">>}

\* Contents of a script file.
Text_empty   == <<>>
Text_plain   == <<"e", "c", "h", "o", " ", "h", "i", "\n">>
Text_bare    == <<"#", "!", "\n">>
Text_blank   == <<"#", "!", " ", "\t", "\n">>
Text_sh      == <<"#", "!", "/", "b", "i", "n", "/", "s", "h", "\n", "e", "c", "h", "o", " ", "h", "i", "\n">>
Text_spaced  == <<"#", "!", " ", "/", "b", "i", "n", "/", "s", "h", " ", "-", "e", "\r", "\n">>
Text_env     == <<"#", "!", "/", "u", "s", "r", "/", "b", "i", "n", "/", "e", "n", "v", " ", "p", "y", "t", "h", "o", "n", "3", "\n">>
Text_late    == <<"\n", "#", "!", "/", "b", "i", "n", "/", "s", "h", "\n">>
Text_indent  == <<" ", "#", "!", "/", "b", "i", "n", "/", "s", "h">>
Contents == {Text_empty, Text_plain, Text_bare, Text_blank, Text_sh,
             Text_spaced, Text_env, Text_late, Text_indent}

\* Permission bits of a script file: 0644, 0654, 0755.
Modes == {{}, {"gx"}, {"ux", "gx", "ox"}}

ScriptFiles == [mode : Modes, readable : BOOLEAN, content : Contents]

DefaultFile == [mode |-> {"ux", "gx", "ox"}, readable |-> TRUE, content |-> Text_sh]
PlainFile   == [mode |-> {}, readable |-> TRUE, content |-> Text_env]
HiddenFile  == [mode |-> {}, readable |-> FALSE, content |-> Text_plain]

\* The arguments passed on to the script: the first n of a fixed list.
ArgWords == <<<<"-", "v">>, <<"x", " ", "y">>, <<"z">>, <<"w">>>>
ArgLists == {SubSeq(ArgWords, 1, n) : n \in 0..MaxArgs}

Directory(files) == [state |-> "dir", files |-> files]
NotADirectory    == [state |-> "notdir", files |-> <<>>]
NoFiles          == <<>>

\* File systems around one script name: no scripts directory, a regular file
\* in its place, a directory without the script, a directory with it.
ScriptFSs(g, name, files) ==
  {<<>>, ScriptsDirOf(g) :> NotADirectory, ScriptsDirOf(g) :> Directory(NoFiles)}
    \cup {ScriptsDirOf(g) :> Directory(name :> f) : f \in files}

\* What a started script does: it cannot be started, or it runs for dur
\* seconds and exits with code.
ScriptRuns ==
  {[spawn |-> FALSE, dur |-> 0, code |-> 0]}
    \cup [spawn : {TRUE}, dur : 0..MaxDuration, code : {0, 1}]

QuickRuns == {r \in ScriptRuns : r.dur = 0}

NoFlag == [given |-> FALSE, value |-> 0]
Flag(v) == [given |-> TRUE, value |-> v]
TimeoutFlags == {NoFlag} \cup {Flag(v) : v \in -1..MaxTimeoutArg}
ConfigTimeouts == -1..MaxTimeoutArg

TemplateName == <<"t">>
OutputName   == <<"o", "u", "t">>
TemplateFile == [mode |-> {}, readable |-> TRUE, content |-> <<"{", "{", ".", "X", "}", "}">>]
LockedFile   == [TemplateFile EXCEPT !.readable = FALSE]

\* File systems around one template name.
TemplateFSs(g) ==
  {<<>>, TemplatesDirOf(g) :> NotADirectory}
    \cup {TemplatesDirOf(g) :> Directory(files) : files \in
            {NoFiles,
             TemplateName :> TemplateFile,
             TemplateName :> LockedFile,
             (TemplateName \o Str_tmpl) :> TemplateFile,
             (TemplateName :> TemplateFile) @@ ((TemplateName \o Str_tmpl) :> LockedFile)}}

TmplEnvs == [parseOk : BOOLEAN, createOk : BOOLEAN, executeOk : BOOLEAN]

Invocation(g, f, c, n, a, tf, ct, r, te, d) ==
  [goos |-> g, fs |-> f, command |-> c, scriptName |-> n, scriptArgs |-> a,
   timeoutFlag |-> tf, configTimeout |-> ct, script |-> r, tmplEnv |-> te,
   dest |-> d]

DefaultRun == [spawn |-> TRUE, dur |-> 0, code |-> 0]
DefaultEnv == [parseOk |-> TRUE, createOk |-> TRUE, executeOk |-> TRUE]

\* `script run` on a POSIX host, varied in what decides the command there:
\* the file system, the mode and the content of the file, the arguments.
PosixInvocations ==
  UNION {{Invocation("linux", f, "run", n, a, NoFlag, 0, r, DefaultEnv, NoFile) :
            f \in ScriptFSs("linux", n, ScriptFiles), a \in ArgLists, r \in QuickRuns} :
         n \in {Name_sh}}

\* `script run` on a Windows host, varied in what decides the command there:
\* the name and the arguments.
WindowsInvocations ==
  UNION {{Invocation("windows", f, "run", n, a, NoFlag, 0, r, DefaultEnv, NoFile) :
            f \in ScriptFSs("windows", n, {DefaultFile, PlainFile}),
            a \in ArgLists, r \in QuickRuns} :
         n \in Names}

\* `script run` of one executable script, varied in the timeout and in how
\* long the script runs.
TimedInvocations ==
  {Invocation("linux", ScriptsDirOf("linux") :> Directory(Name_sh :> DefaultFile),
              "run", Name_sh, <<>>, tf, ct, r, DefaultEnv, NoFile) :
     tf \in TimeoutFlags, ct \in ConfigTimeouts, r \in ScriptRuns}

\* `script show`.
ShowInvocations ==
  UNION {{Invocation(g, f, "show", Name_sh, <<>>, NoFlag, 0, DefaultRun, DefaultEnv, NoFile) :
            f \in ScriptFSs(g, Name_sh, {DefaultFile, HiddenFile})} :
         g \in {"linux", "windows"}}

\* `template apply`.
ApplyInvocations ==
  UNION {{Invocation(g, f, "apply", Name_sh, <<>>, NoFlag, 0, DefaultRun, te, d) :
            f \in TemplateFSs(g), te \in TmplEnvs, d \in {NoFile, File(OldContent)}} :
         g \in {"linux", "windows"}}

\* What an invocation is run with besides: the home directory, --config,
\* the word typed at the overwrite prompt, whether directories can be read.
Resolved(path) == [ok |-> TRUE, path |-> path]
Unresolved     == [ok |-> FALSE, path |-> <<>>]

With(inv, h, c, w, r) ==
  [goos |-> inv.goos, fs |-> inv.fs, command |-> inv.command,
   scriptName |-> inv.scriptName, scriptArgs |-> inv.scriptArgs,
   timeoutFlag |-> inv.timeoutFlag, configTimeout |-> inv.configTimeout,
   script |-> inv.script, tmplEnv |-> inv.tmplEnv, dest |-> inv.dest,
   home |-> h, cfgFile |-> c, response |-> w, readDirOk |-> r]

Usual(inv) == With(inv, Resolved(HomeOf(inv.goos)), FALSE, <<>>, TRUE)

\* `template apply` on an existing output file, varied in the answer typed.
AnsweredInvocations ==
  {With(inv, Resolved(HomeOf(inv.goos)), FALSE, w, TRUE) :
     inv \in {i \in ApplyInvocations : i.dest.exists}, w \in Responses \ {<<>>}}

ConfigDirOf(g) == IF g = "windows" THEN <<"C", ":", "\\", "u", "\\", ".", "b", "e", "r", "g", "a">>
                                    ELSE <<"/", "h", "/", ".", "b", "e", "r", "g", "a">>

\* `script list` and `template list`, also with a regular file in the place
\* of the configuration directory.
ListInvocations ==
  UNION {{With(Invocation(g, f, c, Name_sh, <<>>, NoFlag, 0, DefaultRun, DefaultEnv, NoFile),
               Resolved(HomeOf(g)), FALSE, <<>>, r) :
            f \in ScriptFSs(g, Name_sh, {DefaultFile, PlainFile}) \cup TemplateFSs(g)
                    \cup {ConfigDirOf(g) :> NotADirectory},
            c \in {"list", "tlist"}, r \in BOOLEAN} :
         g \in {"linux", "windows"}}

\* A second home directory, with nothing under it.
OtherHomeOf(g) == IF g = "windows" THEN <<"D", ":", "\\", "w">> ELSE <<"/", "r", "/", "k">>

OtherHomeInvocations ==
  UNION {{With(Invocation(g, <<>>, c, Name_sh, <<>>, NoFlag, 0, DefaultRun, DefaultEnv, NoFile),
               Resolved(OtherHomeOf(g)), cf, <<>>, TRUE) :
            c \in {"run", "show", "list", "tlist", "apply"}, cf \in BOOLEAN} :
         g \in {"linux", "windows"}}

\* The directories the commands fall back on when GetConfigDir returns "":
\* scripts and templates under the working directory.
WorkingDirFSs ==
  {<<>>,
   Scripts :> Directory(Name_sh :> DefaultFile),
   Templates :> Directory(TemplateName :> TemplateFile)}

\* The home directory cannot be resolved, with and without --config.
HomelessInvocations ==
  UNION {{With(Invocation(g, f, c, Name_sh, <<>>, NoFlag, 0, DefaultRun, DefaultEnv, NoFile),
               Unresolved, cf, <<>>, TRUE) :
            f \in WorkingDirFSs, c \in {"run", "show", "list", "tlist", "apply"},
            cf \in BOOLEAN} :
         g \in {"linux", "windows"}}

Invocations ==
  {Usual(inv) : inv \in PosixInvocations \cup WindowsInvocations \cup TimedInvocations
                        \cup ShowInvocations \cup ApplyInvocations}
    \cup AnsweredInvocations \cup ListInvocations \cup OtherHomeInvocations
    \cup HomelessInvocations

Init ==
  /\ \E inv \in Invocations :
       /\ goos = inv.goos
       /\ home = inv.home
       /\ cfgFile = inv.cfgFile
       /\ response = inv.response
       /\ readDirOk = inv.readDirOk
       /\ fs = inv.fs
       /\ command = inv.command
       /\ scriptName = inv.scriptName
       /\ scriptArgs = inv.scriptArgs
       /\ timeoutFlag = inv.timeoutFlag
       /\ scriptTimeout = IF inv.timeoutFlag.given THEN inv.timeoutFlag.value
                                                    ELSE DefaultTimeout
       /\ configTimeout = inv.configTimeout
       /\ script = inv.script
       /\ tmplEnv = inv.tmplEnv
       /\ dest = inv.dest
       /\ destAtCall = inv.dest
  /\ templateName = TemplateName
  /\ outputFile = OutputName
  /\ clock = 0
  /\ call = 1
  /\ pc = "init"
  /\ catalog = {}
  /\ exitCode = NoExit
  /\ reported = <<>>
  /\ timeout = [i \in Calls |-> 0]
  /\ cmd = [i \in Calls |-> Command(<<>>, <<>>)]
  /\ deadline = [i \in Calls |-> 0]
  /\ done = [i \in Calls |-> <<>>]
  /\ lpc = [i \in Calls |-> "none"]
  /\ runErr = [i \in Calls |-> Nil]
  /\ process = [i \in Calls |-> Nil]
  /\ child = [i \in Calls |-> NoChild]
  /\ spawned = [i \in Calls |-> 0]
  /\ sentAt = [i \in Calls |-> -1]
  /\ outcome = [i \in Calls |-> NoOutcome]
  /\ tpath = <<>>
  /\ prompts = <<>>

Next == Step \/ Tick

Spec == Init /\ [][Next]_vars

\* The Go scheduler runs a goroutine that can take a step: once the child
\* has exited, the launcher of every call gets its return from cmd.Wait()
\* and its send, as long as the process lives.  Nothing is assumed about
\* main, the operating system or the passing of time.
LauncherFairness ==
  \A i \in Calls :
    /\ WF_vars(WaitReturns(i))
    /\ WF_vars(SendDone(i))

FairSpec == Spec /\ LauncherFairness


\* ================================================================ claims

\* The separator of the host and the directories under the resolved home
\* directory, written out.
Slash == IF goos = "windows" THEN <<"\\">> ELSE <<"/">>
ConfigDirWritten    == home.path \o Slash \o <<".", "b", "e", "r", "g", "a">>
ScriptsDirWritten   == ConfigDirWritten \o Slash \o <<"s", "c", "r", "i", "p", "t", "s">>
TemplatesDirWritten ==
  ConfigDirWritten \o Slash \o <<"t", "e", "m", "p", "l", "a", "t", "e", "s">>

\* The script file as the file system holds it, whatever os.Stat reports.
ScriptFileExists ==
  /\ home.ok
  /\ ScriptsDirWritten \in DOMAIN fs
  /\ fs[ScriptsDirWritten].state = "dir"
  /\ scriptName \in DOMAIN fs[ScriptsDirWritten].files

ScriptFile == fs[ScriptsDirWritten].files[scriptName]

\* The path of the script, written out.
PathOf == ScriptsDirWritten \o Slash \o scriptName

\* Call i of runScript has built its command and started its launcher.
Planned(i) == command = "run" /\ lpc[i] # "none"

\* The main goroutine is at the return of call i.
AtReturn(i) == call = i /\ pc = "returned"

\* The main goroutine has left call i, by a return or by a panic.
Left(i) == call > i \/ (call = i /\ pc \in {"returned", "panicked"})

\* --- C1 ---------------------------------------------------------------
\* C1: for a script whose child process runs longer than the effective
\* timeout, runScript returns the timed-out error carrying exactly the
\* effective timeout, and at the moment runScript returns the child process
\* is no longer running.  (Stated for a positive timeout; the error is
\* returned, but the child has only been sent the kill signal.)
C1_TimedOutAndGone ==
  \A i \in Calls :
    (Planned(i) /\ ScriptFileExists /\ script.spawn
       /\ timeout[i] > 0 /\ script.dur > timeout[i] /\ AtReturn(i))
    => /\ outcome[i] = Returned("TimedOut", Nil,
                                EffectiveTimeout(scriptTimeout, configTimeout))
       /\ child[i].state \notin {"running", "signalled"}

\* --- C2 ---------------------------------------------------------------
\* C2: a call of runScript starts at most one child process and yields at
\* most one outcome: an outcome once returned never changes (a completion
\* that arrives after the timeout leaves it alone), only the current call
\* writes an outcome, and a later call starts from a fresh command, channel
\* and process with the flag and configuration values unchanged.
C2_OneAttemptOneOutcome ==
  [][ /\ \A i \in Calls : spawned'[i] <= 1
      /\ \A i \in Calls : outcome[i] # NoOutcome => outcome'[i] = outcome[i]
      /\ \A i \in Calls : outcome'[i] # outcome[i] => i = call
      /\ call' # call =>
           /\ lpc'[call'] = "none" /\ done'[call'] = <<>>
           /\ process'[call'] = Nil /\ child'[call'] = NoChild
           /\ scriptTimeout' = scriptTimeout /\ configTimeout' = configTimeout
    ]_vars

\* A first call timed out, its launcher delivered the late completion, and a
\* second call has returned as well.
C2_Witness ==
  /\ MaxCalls >= 2 /\ call = 2 /\ pc = "returned"
  /\ outcome[1].kind = "TimedOut" /\ child[1].code = -1
  /\ lpc[1] = "end" /\ done[1] = <<"signal: killed">>
  /\ outcome[2].kind = "TimedOut" /\ spawned[1] = 1 /\ spawned[2] = 1

\* --- C3 ---------------------------------------------------------------
\* C3: for every script name that has no file under the scripts directory
\* (the directory itself may be missing), `script run` and `script show`
\* fail with the not-found error, and `script run` starts no child process.
C3_MissingIsNotFound ==
  \A i \in Calls :
    (command \in {"run", "show"} /\ home.ok /\ ~ScriptFileExists)
    => /\ spawned[i] = 0
       /\ Left(i) => outcome[i].kind = "NotFound"

\* --- C4 ---------------------------------------------------------------
\* C4: the effective timeout is the value of --timeout whenever the flag is
\* given, else the configured scripts.timeout (a positive number of
\* seconds), else the default of 300 seconds.
C4_FlagOverConfig ==
  \A i \in Calls :
    Planned(i) =>
      timeout[i] = IF timeoutFlag.given THEN timeoutFlag.value
                   ELSE IF configTimeout > 0 THEN configTimeout
                   ELSE 300

\* --- C5 ---------------------------------------------------------------
\* C5: if the child process completes before the timeout fires, runScript
\* returns Success exactly when the process was started and exited with
\* status 0, and otherwise a Failure that wraps the error of the process
\* (its exit status, or the failure to start it); it never returns TimedOut.
C5_CompletionFirst ==
  \A i \in Calls :
    (Planned(i) /\ sentAt[i] >= 0 /\ sentAt[i] < deadline[i] /\ Left(i))
    => /\ outcome[i].kind \in {"Success", "Failure"}
       /\ outcome[i].kind = "Success"
            <=> (spawned[i] = 1 /\ child[i].state = "exited" /\ child[i].code = 0)
       /\ outcome[i].kind = "Failure" =>
            outcome[i].err = IF spawned[i] = 0 THEN "spawn failed" ELSE "exit status 1"

\* Before a timeout of two seconds, one script has failed after a second
\* and another could not be started.
C5_Witness ==
  /\ call = 1 /\ pc = "returned" /\ deadline[1] = 2
  /\ outcome[1].kind = "Failure"
  /\ \/ sentAt[1] = 1 /\ outcome[1].err = "exit status 1"
     \/ sentAt[1] = 0 /\ outcome[1].err = "spawn failed"

\* --- C6 ---------------------------------------------------------------
\* C6: for a script that exits immediately with status 0, runScript returns
\* Success for every effective timeout greater than 0: the timeout branch is
\* not the one taken.
C6_QuickScriptSucceeds ==
  \A i \in Calls :
    (Planned(i) /\ ScriptFileExists /\ script = [spawn |-> TRUE, dur |-> 0, code |-> 0]
       /\ timeout[i] > 0 /\ Left(i))
    => outcome[i].kind = "Success"

\* A script that exits at once has returned Success under the shortest
\* positive timeout, one second.
C6_Witness ==
  /\ pc = "returned" /\ Planned(call) /\ timeout[call] = 1
  /\ script = [spawn |-> TRUE, dur |-> 0, code |-> 0]
  /\ outcome[call].kind = "Success"


\* --- C7 ---------------------------------------------------------------

\* The text of content before its first line end.
FirstLineOf(content) ==
  LET ends == {i \in 1..Len(content) : content[i] = "\n"}
      stop == IF ends = {} THEN Len(content)
              ELSE (CHOOSE i \in ends : \A j \in ends : i <= j) - 1
  IN  SubSeq(content, 1, stop)

StartsWithShebang(content) ==
  LET l == FirstLineOf(content) IN Len(l) >= 2 /\ l[1] = "#" /\ l[2] = "!"

\* The first run of characters without white space after the "#!" marker of
\* the first line, <<>> when there is none.
TokenAfterMarker(content) ==
  LET l     == FirstLineOf(content)
      rest  == SubSeq(l, 3, Len(l))
      black == {i \in 1..Len(rest) : ~IsSpace(rest[i])}
  IN  IF black = {} THEN <<>>
      ELSE LET a == CHOOSE i \in black : \A j \in black : i <= j
               b == CHOOSE i \in a..Len(rest) :
                      /\ \A k \in a..i : k \in black
                      /\ (i + 1) \notin black
           IN  SubSeq(rest, a, b)

OnPosix(i) == goos = "linux" /\ home.ok /\ Planned(i) /\ ScriptFileExists

\* C7 as stated: on a POSIX host an execute bit means direct execution; else
\* a first line starting with "#!" means <first token after the marker>
\* <scriptPath> <args...>; else sh <scriptPath> <args...>.
C7_PosixPrecedence ==
  \A i \in Calls :
    OnPosix(i) =>
      cmd[i] = IF ScriptFile.mode \cap {"ux", "gx", "ox"} # {}
               THEN [name |-> PathOf, args |-> scriptArgs]
               ELSE IF StartsWithShebang(ScriptFile.content)
               THEN [name |-> TokenAfterMarker(ScriptFile.content),
                     args |-> <<PathOf>> \o scriptArgs]
               ELSE [name |-> Str_sh, args |-> <<PathOf>> \o scriptArgs]

\* C7 amended: the shebang branch is taken only when the file can be read and
\* a token follows the marker; a script that is not executable and has no
\* such token (no shebang, a bare "#!", an unreadable file) is run by sh.
C7_PosixPrecedenceAmended ==
  \A i \in Calls :
    OnPosix(i) =>
      cmd[i] = IF ScriptFile.mode \cap {"ux", "gx", "ox"} # {}
               THEN [name |-> PathOf, args |-> scriptArgs]
               ELSE IF /\ ScriptFile.readable
                       /\ StartsWithShebang(ScriptFile.content)
                       /\ TokenAfterMarker(ScriptFile.content) # <<>>
               THEN [name |-> TokenAfterMarker(ScriptFile.content),
                     args |-> <<PathOf>> \o scriptArgs]
               ELSE [name |-> Str_sh, args |-> <<PathOf>> \o scriptArgs]

\* A script with only the group execute bit and a shebang is run directly; a
\* script without execute bit whose first line is "#! /bin/sh -e" is run by
\* /bin/sh; both with two arguments.
C7_Witness ==
  /\ OnPosix(1) /\ Len(scriptArgs) = 2
  /\ \/ /\ ScriptFile.mode = {"gx"} /\ ScriptFile.content = Text_sh
        /\ cmd[1].name = PathOf
     \/ /\ ScriptFile.mode = {} /\ ScriptFile.content = Text_spaced
        /\ cmd[1].name = <<"/", "b", "i", "n", "/", "s", "h">> /\ cmd[1].args[1] = PathOf

\* --- C8 ---------------------------------------------------------------
\* C8: a POSIX script without execute permission whose first line is
\* "#!/usr/bin/env python3" is run by the interpreter python3, with the
\* script path as first argument, followed by the arguments in their order.
C8_EnvPython3 ==
  \A i \in Calls :
    (OnPosix(i) /\ ScriptFile.mode = {} /\ ScriptFile.readable
       /\ FirstLineOf(ScriptFile.content) = <<"#", "!", "/", "u", "s", "r", "/", "b", "i", "n", "/", "e", "n", "v", " ", "p", "y", "t", "h", "o", "n", "3">>)
    => cmd[i] = [name |-> <<"p", "y", "t", "h", "o", "n", "3">>, args |-> <<PathOf>> \o scriptArgs]

\* --- C9 ---------------------------------------------------------------

EndsIn(name, suffix) ==
  Len(name) >= Len(suffix)
    /\ \A k \in 1..Len(suffix) : name[Len(name) - Len(suffix) + k] = suffix[k]

\* The command of a Windows host for a name whose suffix is read by ends.
WindowsCommand(ends(_, _)) ==
  IF ends(scriptName, <<".", "p", "s", "1">>)
  THEN [name |-> <<"p", "o", "w", "e", "r", "s", "h", "e", "l", "l">>, args |-> <<<<"-", "F", "i", "l", "e">>, PathOf>> \o scriptArgs]
  ELSE IF ends(scriptName, <<".", "b", "a", "t">>) \/ ends(scriptName, <<".", "c", "m", "d">>)
  THEN [name |-> <<"c", "m", "d">>, args |-> <<<<"/", "C">>, PathOf>> \o scriptArgs]
  ELSE [name |-> PathOf, args |-> scriptArgs]

\* C9 as stated: on a Windows host a name ending in .ps1 is run as
\* powershell -File <path> <args...>, else one ending in .bat or .cmd as
\* cmd /C <path> <args...>, else the file is executed directly; neither the
\* mode nor the content of the file has a part in it.
C9_WindowsByName ==
  \A i \in Calls :
    (goos = "windows" /\ home.ok /\ Planned(i)) => cmd[i] = WindowsCommand(EndsIn)

EndsInFolded(name, suffix) == EndsIn(ToLower(name), suffix)

\* C9 amended: the suffix of the name is compared without regard to case.
C9_WindowsByNameAmended ==
  \A i \in Calls :
    (goos = "windows" /\ home.ok /\ Planned(i)) => cmd[i] = WindowsCommand(EndsInFolded)

\* c.Cmd is run by cmd /C with two arguments, on a file that has a shebang
\* and no execute bit.
C9_Witness ==
  /\ goos = "windows" /\ Planned(1) /\ ScriptFileExists
  /\ scriptName = <<"c", ".", "C", "m", "d">> /\ Len(scriptArgs) = 2
  /\ ScriptFile = PlainFile
  /\ cmd[1].name = <<"c", "m", "d">> /\ cmd[1].args[2] = PathOf

\* --- C10 --------------------------------------------------------------

TemplateExists(name) ==
  /\ home.ok
  /\ TemplatesDirWritten \in DOMAIN fs
  /\ fs[TemplatesDirWritten].state = "dir"
  /\ name \in DOMAIN fs[TemplatesDirWritten].files

TemplatePathOf(name) == TemplatesDirWritten \o Slash \o name

\* C10: applyTemplate takes the template of the exact name, and the one of
\* name + ".tmpl" only if the exact name is absent; when neither exists it
\* fails with the not-found error, the output file is as it was before the
\* call, and nothing has been asked of the user.
C10_MissingTemplate ==
  (command = "apply" /\ home.ok) =>
    /\ (pc \in {"confirm", "read", "parse", "create", "execute"}
          /\ TemplateExists(templateName))
         => tpath = TemplatePathOf(templateName)
    /\ (pc \in {"confirm", "read", "parse", "create", "execute"}
          /\ ~TemplateExists(templateName))
         => tpath = TemplatePathOf(templateName \o <<".", "t", "m", "p", "l">>)
    /\ (~TemplateExists(templateName) /\ ~TemplateExists(templateName \o <<".", "t", "m", "p", "l">>))
         => /\ dest = destAtCall
            /\ prompts = <<>>
            /\ pc \in {"init", "start", "returned", "exited"}
            /\ \A i \in Calls : Left(i) => outcome[i].kind = "NotFound"


\* --- C11 --------------------------------------------------------------

\* The answers that accept the overwrite, in every spelling.
Accepting ==
  {<<"y">>, <<"Y">>}
    \cup {<<a, b, c>> : a \in {"y", "Y"}, b \in {"e", "E"}, c \in {"s", "S"}}

\* The current call has asked whether to overwrite and the answer typed is
\* none of the accepting ones.
Declined ==
  /\ command = "apply" /\ destAtCall.exists
  /\ prompts # <<>> /\ prompts[1] = "overwrite"
  /\ response \notin Accepting

\* C11: when the destination exists and the user declines the overwrite
\* prompt, the destination keeps its content, nothing further is asked, and
\* applyTemplate returns without error: the outcome is the cancellation, no
\* error is reported and the exit code is 0.
C11_DeclineKeepsDest ==
  Declined =>
    /\ dest = destAtCall
    /\ prompts = <<"overwrite">>
    /\ pc \in {"returned", "exited"}
    /\ outcome[call] = Returned("Cancelled", Nil, 0)
    /\ reported = <<>>
    /\ exitCode \in {NoExit, 0}

\* The user has answered "no" in two calls, the process has exited with 0
\* and the destination still holds its old content.
C11_Witness ==
  /\ Declined /\ response = <<"n", "o">>
  /\ call = 2 /\ pc = "exited" /\ exitCode = 0
  /\ outcome[1].kind = "Cancelled" /\ outcome[2].kind = "Cancelled"
  /\ dest = [exists |-> TRUE, content |-> <<"o", "l", "d">>]


\* --- C12 --------------------------------------------------------------

\* The root directory of the listing, written out, and what the file system
\* holds there.
ListRoot == IF command = "list" THEN ScriptsDirWritten ELSE TemplatesDirWritten

RootExists == ListRoot \in DOMAIN fs
RootIsReadableDir == RootExists /\ fs[ListRoot].state = "dir" /\ readDirOk
RootIsEmptyDir == RootIsReadableDir /\ DOMAIN fs[ListRoot].files = {}

\* A regular file stands where the configuration directory should be.
ConfigDirIsFile ==
  ConfigDirWritten \in DOMAIN fs /\ fs[ConfigDirWritten].state = "notdir"

Listed == command \in {"list", "tlist"} /\ home.ok /\ pc \in {"returned", "exited"}

NoErrorNoEntries ==
  /\ outcome[call].kind \notin {"none", "ReadDirError"}
  /\ catalog = {}
  /\ reported = <<>>
  /\ exitCode \in {NoExit, 0}

C13_UnresolvedHomeIsFatal ==
  ~home.ok =>
    /\ \A i \in Calls :
         outcome[i] = NoOutcome /\ lpc[i] = "none" /\ spawned[i] = 0
    /\ catalog = {} /\ prompts = <<>> /\ dest = destAtCall
    /\ pc = "exited" => (exitCode = 1 /\ reported = <<"ConfigUnavailable">>)


\* --- C14 --------------------------------------------------------------
\* C14: the exit code of `script run` is 0 exactly when the outcome of the
\* run is Success, and it is not 0 for NotFound, for a failed execution and
\* for a timeout; an invocation that fails has written exactly one error,
\* one that succeeds none.
C14_ExitCodeOfRun ==
  (command = "run" /\ exitCode # NoExit) =>
    /\ exitCode = 0 <=> outcome[call].kind = "Success"
    /\ outcome[call].kind \in {"NotFound", "Failure", "TimedOut"} =>
         (exitCode = 1 /\ reported = <<outcome[call].kind>>)
    /\ Len(reported) = IF exitCode = 0 THEN 0 ELSE 1

\* A run has timed out and the process has exited with 1 and the one error.
C14_Witness ==
  /\ command = "run" /\ pc = "exited" /\ exitCode = 1
  /\ outcome[call].kind = "TimedOut" /\ reported = <<"TimedOut">>
  /\ child[call].state \in {"signalled", "exited"}


\* --- C15 --------------------------------------------------------------
ConfigPathsOfHome ==
  /\ GetConfigDir = ConfigDirWritten
  /\ GetScriptsDir = ScriptsDirWritten
  /\ GetTemplatesDir = TemplatesDirWritten
  /\ GetConfigDir # <<>> /\ GetScriptsDir # <<>> /\ GetTemplatesDir # <<>>

\* C15: whenever the home directory is resolvable, GetConfigDir,
\* GetScriptsDir and GetTemplatesDir are home/.berga, home/.berga/scripts and
\* home/.berga/templates, non-empty and the same at every point of the
\* process, and no step of a command that calls them adds a directory (or
\* anything else) to the file system.
C15_ConfigPaths ==
  /\ [](home.ok => ConfigPathsOfHome)
  /\ [][fs' = fs /\ home' = home]_vars

\* `script list` under a home directory that holds nothing has finished:
\* the three paths were computed and the directories still do not exist.
C15_Witness ==
  /\ home = Resolved(OtherHomeOf(goos))
  /\ command = "list" /\ pc = "exited" /\ exitCode = 0
  /\ outcome[call].kind = "DirMissing"
  /\ {GetConfigDir, GetScriptsDir, GetTemplatesDir} \cap DOMAIN fs = {}
  /\ GetScriptsDir = OtherHomeOf(goos) \o Slash \o DotBerga \o Slash \o Scripts


\* --- C16 --------------------------------------------------------------
\* The step of the select statement that takes the timeout case.
TimeoutStep ==
  /\ pc = "select"
  /\ \/ pc' = "panicked"
     \/ pc' = "returned" /\ outcome'[call].kind = "TimedOut"

\* C16: a run reaches TimedOut only from Running: in every interleaving of
\* the launcher goroutine and the timer, the timeout case of the select
\* statement is taken only when the child process has been spawned and the
\* launcher has finished writing the process handle, so the kill acts on a
\* started process and the handle it reads is set.
C16_KillOnlyAfterSpawn ==
  [][ TimeoutStep =>
        /\ spawned[call] = 1
        /\ process[call] # Nil
        /\ lpc[call] \notin {"start", "assign"}
        /\ pc' = "returned"
    ]_vars


\* --- C17 --------------------------------------------------------------
\* The launcher of call i is at its send and the send can go through: the
\* channel has room (nothing was sent before).
SendCanProceed(i) ==
  lpc[i] = "send" => (Len(done[i]) < DoneCap /\ sentAt[i] = -1)

\* C17: the launcher goroutine never blocks on delivering its result: when
\* it reaches the send the channel has room, whether or not runScript still
\* receives; there is one send per run, never more than the capacity holds;
\* and once the child has exited the goroutine ends (or the process does).
C17_LauncherNeverBlocks ==
  /\ [](\A i \in Calls : SendCanProceed(i) /\ Len(done[i]) <= DoneCap)
  /\ [][\A i \in Calls : sentAt[i] # -1 => (sentAt'[i] = sentAt[i] /\ lpc'[i] = "end")]_vars
  /\ \A i \in Calls :
       (lpc[i] \in {"wait", "send"} /\ child[i].state = "exited")
         ~> (lpc[i] = "end" \/ ~Alive)

\* runScript has returned on the timeout and the process goes on with a
\* second call; the launcher of the first call, whose result nobody
\* receives, has sent it into the channel and ended.
C17_Witness ==
  /\ call = 2 /\ pc = "select"
  /\ outcome[1].kind = "TimedOut" /\ child[1].state = "exited"
  /\ lpc[1] = "end" /\ Len(done[1]) = 1 /\ sentAt[1] >= deadline[1]
  /\ lpc[2] = "wait"


\* --- C18 --------------------------------------------------------------
\* A step that creates, truncates or writes the output file.
DestWritten == dest' # dest \/ (pc = "create" /\ pc' = "execute")

\* The calls of applyTemplate that must leave the output file alone.
LeavesDest == {"NotFound", "ReadError", "ParseError", "Cancelled"}

\* C18: applyTemplate creates or truncates the output file only after the
\* template was found, the overwrite of an existing file was confirmed, and
\* the template file was read and parsed; when it returns a not-found, read
\* or parse error, or the overwrite was declined, the output file is as it
\* was before the call.
C18_DestOnlyAfterChecks ==
  /\ []((command = "apply" /\ outcome[call].kind \in LeavesDest) => dest = destAtCall)
  /\ [][DestWritten =>
          /\ command = "apply" /\ pc \in {"create", "execute"}
          /\ Stat(tpath) = "ok" /\ FileAt(tpath).readable
          /\ tmplEnv.parseOk
          /\ destAtCall.exists =>
               (prompts # <<>> /\ prompts[1] = "overwrite" /\ response \in Accepting)
          /\ outcome[call] = NoOutcome
      ]_vars

\* An existing output file has been overwritten with the rendered template
\* after the overwrite was confirmed with "Yes".
C18_Witness ==
  /\ command = "apply" /\ pc = "returned" /\ call = 1
  /\ destAtCall = File(OldContent) /\ dest = File(RenderedContent)
  /\ response = <<"Y", "e", "s">> /\ prompts = <<"overwrite", "vars">>
  /\ outcome[1].kind = "Success"

====
